---- MODULE Spec2Model ----
(***************************************************************************)
(* A model of the file-cache Coordinator (src/BaseCache.js) on top of the  *)
(* FileCacheBackend (src/unnamed/part_001), for one key of one instance.   *)
(*                                                                         *)
(* Every call of the public API is one process.  A process runs its        *)
(* synchronous code atomically and is suspended where the code awaits      *)
(* something that another party settles: a backend I/O, the producer's     *)
(* promise, a timer, or a promise that another call registered in one of   *)
(* the four in-flight maps.  When a promise settles, the continuation of   *)
(* the call that created it runs in the same step (its reaction was        *)
(* registered first); the calls that share the promise wake up in later    *)
(* steps of their own.                                                     *)
(***************************************************************************)
EXTENDS Integers, FiniteSets, Sequences, TLC

\* ------------------------------------------------------------------ bounds
NCallers == 3
NBusy == 2
MaxTicks == 2
ShortTTL == 1
LongTTL == 2

Callers == 1..NCallers
\* Date.now() is far from 0: the clock starts beyond every ttl in use.
StartNow == LongTTL + 1
MaxNow == StartNow + MaxTicks

\* ------------------------------------------------------------------ values
Undef == "undef"
Default == "default"
True == "true"
False == "false"
ValNames == <<"v1", "v2", "v3", "v4", "v5", "v6">>
\* long values: of one repeated character, and of varied content
FlatNames == <<"f1", "f2", "f3", "f4", "f5", "f6">>
DenseNames == <<"d1", "d2", "d3", "d4", "d5", "d6">>
OldVal == "v0"
Range(f) == {f[i] : i \in DOMAIN f}

\* ----------------------------------------------------------- file content
\* compressMaybe compresses a buffer of at least CompressMin bytes;
\* decompressMaybe looks for the magic number in one of at least SniffMin
CompressMin == 256
SniffMin == 64
\* byte lengths: of the JSON text of an entry with a short and with a long
\* value, and of the zstd frame of the latter for a flat and a dense value
ShortJsonLen == 40
LongJsonLen == 300
FlatZstdLen == 30
DenseZstdLen == 280

\* Buffer.from(JSON.stringify({t, c, v})): its length; it starts with "{"
Stringify(v) ==
    [len |-> IF v \in Range(FlatNames) \cup Range(DenseNames)
             THEN LongJsonLen ELSE ShortJsonLen,
     zstd |-> FALSE, whole |-> TRUE]

\* compress(buffer, 3): a zstd frame, which starts with the magic number
Compress(v) ==
    [len |-> IF v \in Range(FlatNames) THEN FlatZstdLen ELSE DenseZstdLen,
     zstd |-> TRUE, whole |-> TRUE]

\* compressMaybe(Buffer.from(JSON.stringify({t, c, v})))
CompressMaybe(v) ==
    IF Stringify(v).len < CompressMin THEN Stringify(v) ELSE Compress(v)

\* JSON.parse(decompressMaybe(buffer)) returns the entry: the buffer that
\* reaches JSON.parse is whole JSON text; a zstd frame or a part of the text
\* makes it throw
Parses(buf) ==
    buf.whole /\ (IF buf.len < SniffMin THEN ~buf.zstd ELSE TRUE)

\* the content of the target file: the buffer of {t, c, v}, or no file
NoFile == [present |-> FALSE, v |-> Undef, c |-> 0, t |-> 0,
           buf |-> [len |-> 0, zstd |-> FALSE, whole |-> TRUE]]
File(v, c, t) == [present |-> TRUE, v |-> v, c |-> c, t |-> t,
                  buf |-> CompressMaybe(v)]
\* a file that holds the first bytes of the buffer of e only
Truncated(e) == [e EXCEPT !.buf = [len |-> 0, zstd |-> e.buf.zstd,
                                   whole |-> FALSE]]

\* a promise: pending, resolved with v, or rejected
NoPromise == [st |-> "none", v |-> Undef]
Pending == [st |-> "pending", v |-> Undef]
Resolved(v) == [st |-> "ok", v |-> v]
Rejected == [st |-> "err", v |-> Undef]

VARIABLES
    now,                \* Date.now()
    store,              \* the target file of the key
    unlinks,            \* fire-and-forget unlinks issued and not yet executed
    getting,            \* the four in-flight maps at the key: the calls whose
    setting,            \*   promise is registered (at most one), or a flag
    getOrSetting,
    getOrSettingStale,
    bypassed,           \* isBypassed()
    batch,              \* history: groups of overlapping getOrSet calls so far
    P                   \* the calls

vars == <<now, store, unlinks, getting, setting, getOrSetting,
          getOrSettingStale, bypassed, batch, P>>

IdleProc ==
    [op |-> "idle", pc |-> "idle", path |-> "none",
     src |-> "plain", ttl |-> 0, stale |-> 0,
     rr |-> TRUE, fr |-> FALSE, fu |-> FALSE,
     wait |-> 0,
     rd |-> NoPromise, vp |-> NoPromise, gp |-> NoPromise,
     ent |-> NoFile, tmp |-> NoFile, isStale |-> FALSE, existing |-> Undef,
     ret |-> NoPromise,
     kind |-> "short",
     xf |-> FALSE,
     \* history, read by the properties only
     calls |-> 0, e0 |-> NoFile, t0 |-> 0, e1 |-> NoFile, set0 |-> FALSE,
     gos0 |-> FALSE, byp0 |-> FALSE, regen |-> FALSE, callsAtRet |-> 0,
     failed |-> FALSE, clean |-> FALSE, stored |-> FALSE, batch |-> 0,
     clr0 |-> FALSE, quiet |-> FALSE]

\* the value the caller p passes to set, or that its promise or producer yields
Val(p) ==
    CASE P[p].kind = "flat" -> FlatNames[p]
      [] P[p].kind = "dense" -> DenseNames[p]
      [] OTHER -> ValNames[p]

Returned(p) == P[p].ret.st # "none"
InFlight(p) == P[p].op # "idle" /\ ~Returned(p)

\* ---------------------------------------------------------------- helpers
WithDefault(v) == IF v = Undef THEN Default ELSE v

Expired(e, t) == e.present /\ e.t > 0 /\ e.c < t - e.t

SetCtxStale(staleTTL, e, t) == staleTTL > 0 /\ e.c < t - staleTTL

ParseTTL(ttl) == ttl

\* what every call records when it starts
Begin(rec, op) ==
    [rec EXCEPT !.op = op, !.e0 = store, !.t0 = now,
                !.set0 = (setting # {}), !.gos0 = (getOrSetting # {}),
                !.byp0 = bypassed,
                !.clr0 = \E q \in Callers : P[q].op = "clear" /\ Returned(q)]

Return(rec, r) ==
    [rec EXCEPT !.ret = r, !.callsAtRet = rec.calls]

\* the effect of a step on the call and on the maps it may write
Eff(rec) ==
    [rec |-> rec, getting |-> getting, setting |-> setting,
     gos |-> getOrSetting, gss |-> getOrSettingStale]

Apply(p, eff) ==
    /\ P' = [P EXCEPT ![p] =
                IF eff.rec.ret.st # "none" /\ P[p].ret.st = "none"
                THEN [eff.rec EXCEPT !.regen = eff.gss \/ eff.setting # {}]
                ELSE eff.rec]
    /\ getting' = eff.getting
    /\ setting' = eff.setting
    /\ getOrSetting' = eff.gos
    /\ getOrSettingStale' = eff.gss

\* the call registered in a map
Holder(map) == CHOOSE q \in map : TRUE

\* the promise that the call of p awaits in a shared await has settled: its
\* continuation is in the microtask queue
WakeReady(p) ==
    \/ P[p].pc = "joinG" /\ P[P[p].wait].rd.st \in {"ok", "err"}
    \/ P[p].pc = "joinS" /\ P[P[p].wait].vp.st \in {"ok", "err"}
    \/ P[p].pc = "joinGOS" /\ P[P[p].wait].gp.st \in {"ok", "err"}

\* the microtask queue is empty: the event loop takes the completion of an
\* I/O or a timer only then
Prompt == \A p \in Callers : ~WakeReady(p)

\* ------------------------------------------------------------------- set
\* set(): the code up to its first suspension.  A plain value is registered
\* as a resolved promise and its write is issued; a promise is registered
\* and awaited; a function is called and set() is re-entered with the
\* promise it returns.
SetBegin(p, rec, eff) ==
    [eff EXCEPT
        !.rec = IF rec.src = "plain"
                THEN [rec EXCEPT !.vp = Resolved(Val(p)),
                                 !.ent = File(Val(p), now, ParseTTL(rec.ttl)),
                                 !.pc = "bwrite"]
                ELSE [rec EXCEPT !.vp = Pending, !.pc = "resolving",
                                 !.calls = IF rec.src = "fn" THEN @ + 1 ELSE @],
        !.setting = {p}]

\* what follows the return (ok) or the throw (~ok) of the set() that a call
\* awaited; res is ctx.result
SetReturn(rec, ok, res, eff) ==
    LET r == IF ok THEN Resolved(WithDefault(res)) ELSE Rejected
        fin == [rec EXCEPT !.pc = "done"]
    IN  CASE rec.path = "set" ->
                [eff EXCEPT !.rec = Return(fin, IF ok THEN Resolved(True)
                                                      ELSE Rejected)]
          [] rec.path = "gos" ->
                [eff EXCEPT !.rec = Return([fin EXCEPT !.gp = r], r),
                            !.gos = IF ok THEN {} ELSE eff.gos]
          [] rec.path = "swc" ->
                [eff EXCEPT !.rec = Return(fin, r)]
          [] rec.path = "bg" ->
                [eff EXCEPT !.rec = fin, !.gss = FALSE]

\* a _setWithCheck that does not look at `setting`
SetWithoutCheck(p, rec, eff) == SetBegin(p, [rec EXCEPT !.path = "swc"], eff)

\* _setWithCheck
SetWithCheck(p, rec, eff) ==
    IF eff.setting # {}
    THEN [eff EXCEPT !.rec = [rec EXCEPT !.path = "swc", !.pc = "joinS",
                                         !.wait = Holder(eff.setting)]]
    ELSE SetBegin(p, [rec EXCEPT !.path = "swc"], eff)

\* a _setBackground that does not look at getOrSettingStale
SetBackgroundAlways(p, rec, existing, eff) ==
    [eff EXCEPT !.rec = Return([rec EXCEPT !.pc = "timer", !.path = "bg"],
                               Resolved(WithDefault(existing))),
                !.gss = TRUE]

\* _setBackground, and the return of _getOrSetStale after it
SetBackground(p, rec, existing, eff) ==
    LET r == Resolved(WithDefault(existing))
    IN  IF eff.gss
        THEN [eff EXCEPT !.rec = Return([rec EXCEPT !.pc = "done",
                                                    !.path = "hit"], r)]
        ELSE [eff EXCEPT !.rec = Return([rec EXCEPT !.pc = "timer",
                                                    !.path = "bg"], r),
                         !.gss = TRUE]

\* a decision that ignores requireResult on an absent entry
GenerateInBgMut(existing, isStale, rr, fr) ==
    IF existing = Undef
    THEN "fg"
    ELSE IF isStale
         THEN (IF fr THEN "fg" ELSE "bg")
         ELSE "none"

\* _getOrSetStale: "true = generate in bg, false = generate in fg, null =
\* don't generate"
GenerateInBg(existing, isStale, rr, fr) ==
    IF existing = Undef
    THEN (IF rr \/ fr THEN "fg" ELSE "bg")
    ELSE IF isStale
         THEN (IF fr THEN "fg" ELSE "bg")
         ELSE "none"

\* getStale(): the code up to its first suspension
GetStale(p, rec, eff) ==
    IF eff.getting # {}
    THEN [eff EXCEPT !.rec = [rec EXCEPT !.pc = "joinG",
                                         !.wait = Holder(eff.getting)]]
    ELSE [eff EXCEPT !.rec = [rec EXCEPT !.pc = "reading", !.rd = Pending],
                     !.getting = {p}]

\* what follows getStale() resolving to val in the call that awaited it
AfterRead(p, rec0, val, eff) ==
    LET rec == [rec0 EXCEPT !.existing = val] IN
    CASE rec.op \in {"get", "getStale"} ->
            [eff EXCEPT !.rec = Return([rec EXCEPT !.pc = "done"],
                                       Resolved(WithDefault(val)))]
      [] rec.op = "getOrSet" /\ rec.path = "gos" ->
            IF val # Undef
            THEN [eff EXCEPT !.rec = Return([rec EXCEPT !.pc = "done",
                                                        !.gp = Resolved(val)],
                                            Resolved(val)),
                             !.gos = {}]
            ELSE SetBegin(p, rec, eff)
      [] rec.op = "getOrSet" /\ rec.path = "stale" ->
            LET g == GenerateInBg(val, rec.isStale, rec.rr, rec.fr)
            IN  CASE g = "fg" -> SetWithCheck(p, rec, eff)
                  [] g = "bg" -> SetBackground(p, rec, val, eff)
                  [] OTHER ->
                        [eff EXCEPT !.rec = Return([rec EXCEPT !.pc = "done",
                                                               !.path = "hit"],
                                                   Resolved(val))]

\* ----------------------------------------------------------- call starts
\* get(key, defaultValue)
StartGet(p) ==
    /\ P[p].pc = "idle"
    /\ LET rec == Begin(P[p], "get")
       IN  Apply(p, IF setting # {}
                    THEN [Eff(rec) EXCEPT
                            !.rec = [rec EXCEPT !.pc = "joinS",
                                                !.wait = Holder(setting)]]
                    ELSE GetStale(p, rec, Eff(rec)))
    /\ UNCHANGED <<now, store, unlinks, bypassed, batch>>

\* getStale(key, defaultValue)
StartGetStale(p) ==
    /\ P[p].pc = "idle"
    /\ LET rec == Begin(P[p], "getStale")
       IN  Apply(p, GetStale(p, rec, Eff(rec)))
    /\ UNCHANGED <<now, store, unlinks, bypassed, batch>>

\* getStale(key, defaultValue, {process}): the transform is the caller's
\* function, which returns the value it is given or throws
StartGetStaleProcess(p) ==
    /\ P[p].pc = "idle"
    /\ LET rec == [Begin(P[p], "getStale") EXCEPT !.xf = TRUE]
       IN  Apply(p, GetStale(p, rec, Eff(rec)))
    /\ UNCHANGED <<now, store, unlinks, bypassed, batch>>

\* has(key): the lstat of the target file, observed when it executes
Has(p) ==
    /\ P[p].pc = "idle"
    /\ Prompt
    /\ P' = [P EXCEPT ![p] =
                Return([Begin(@, "has") EXCEPT !.pc = "done"],
                       Resolved(IF store.present THEN True ELSE False))]
    /\ UNCHANGED <<now, store, unlinks, getting, setting, getOrSetting,
                   getOrSettingStale, bypassed, batch>>

\* set(key, value, {ttl}), value a plain value, a promise or a function
StartSet(p, srcs, ttls) ==
    /\ P[p].pc = "idle"
    /\ \E src \in srcs, ttl \in ttls :
         LET rec == [Begin(P[p], "set") EXCEPT !.path = "set", !.src = src,
                                               !.ttl = ttl]
         IN  Apply(p, SetBegin(p, rec, Eff(rec)))
    /\ UNCHANGED <<now, store, unlinks, bypassed, batch>>

\* getOrSet(key, value, options), with options from menu
StartGetOrSet(p, menu) ==
    /\ P[p].pc = "idle"
    /\ \E o \in menu :
         LET alone == \A q \in Callers :
                         ~(P[q].op = "getOrSet" /\ ~Returned(q))
             b == IF alone THEN batch + 1 ELSE batch
             rec == [Begin(P[p], "getOrSet") EXCEPT
                        !.src = o.src, !.ttl = o.ttl, !.stale = o.stale,
                        !.rr = o.rr, !.fr = o.fr, !.fu = o.fu, !.batch = b]
             direct == [Eff(rec) EXCEPT
                          !.rec = [rec EXCEPT !.path = "byp", !.pc = "bypwait",
                                              !.calls = @ + 1]]
             eff ==
                IF o.stale > 0
                THEN \* _getOrSetStale
                     IF bypassed THEN direct
                     ELSE IF o.fu THEN SetWithCheck(p, rec, Eff(rec))
                     ELSE GetStale(p, [rec EXCEPT !.path = "stale"], Eff(rec))
                ELSE IF getOrSetting # {}
                     THEN [Eff(rec) EXCEPT
                             !.rec = [rec EXCEPT !.path = "join",
                                                 !.pc = "joinGOS",
                                                 !.wait = Holder(getOrSetting)]]
                     ELSE IF bypassed THEN direct
                     ELSE IF o.fu THEN SetWithCheck(p, rec, Eff(rec))
                     ELSE LET lead == [rec EXCEPT !.path = "gos",
                                                  !.gp = Pending]
                          IN  [GetStale(p, lead, Eff(lead)) EXCEPT !.gos = {p}]
         IN  /\ Apply(p, eff)
             /\ batch' = b
    /\ UNCHANGED <<now, store, unlinks, bypassed>>

\* bypass(flag) on the instance
Bypass(flag) ==
    /\ bypassed # flag
    /\ bypassed' = flag
    /\ UNCHANGED <<now, store, unlinks, getting, setting, getOrSetting,
                   getOrSettingStale, batch, P>>

\* the producer that a bypassed getOrSet called resolves: _withDefaultOpts
DirectOk(p) ==
    /\ P[p].pc = "bypwait"
    /\ P' = [P EXCEPT ![p] =
                Return([@ EXCEPT !.pc = "done"], Resolved(Val(p)))]
    /\ UNCHANGED <<now, store, unlinks, getting, setting, getOrSetting,
                   getOrSettingStale, bypassed, batch>>

\* it rejects, and so does the call
DirectErr(p) ==
    /\ P[p].pc = "bypwait"
    /\ P' = [P EXCEPT ![p] =
                Return([@ EXCEPT !.pc = "done", !.failed = TRUE], Rejected)]
    /\ UNCHANGED <<now, store, unlinks, getting, setting, getOrSetting,
                   getOrSettingStale, bypassed, batch>>

\* del(key): the unlink of the target file, observed when it executes
DelOp(p) ==
    /\ P[p].pc = "idle"
    /\ Prompt
    /\ P' = [P EXCEPT ![p] =
                Return([Begin(@, "del") EXCEPT !.pc = "done"], Resolved(Undef))]
    /\ store' = NoFile
    /\ UNCHANGED <<now, unlinks, getting, setting, getOrSetting,
                   getOrSettingStale, bypassed, batch>>

\* ------------------------------------------------------------------ paths
\* the logical key of the entry, its parts joined by KEY_SEPARATOR: the
\* instance's keyPath (CACHE_ID, GLOBAL_PREFIX, prefix) and the caller's key
KeyPath == <<"HC", "a", "prefix">>
Key(k) == KeyPath \o <<k>>

\* hash(str): a digest, which no part of a key equals
Hash(str) == "#" \o str

\* keyToPath: the parts of the key, the last one hashed, under CACHE_DIR
KeyToPath(key) == <<"cache">> \o [key EXCEPT ![Len(key)] = Hash(@)]

\* path lies in the tree under dir (keyToFile adds an extension to the last
\* part of the path of a key)
Under(dir, path) ==
    Len(dir) <= Len(path) /\ SubSeq(path, 1, Len(dir)) = dir

\* clear(): fs.rm of keyToPath(this.keyPath), recursive and forced, observed
\* when it executes; _clear() logs what it throws
ClearOp(p) ==
    /\ P[p].pc = "idle"
    /\ Prompt
    /\ P' = [P EXCEPT ![p] =
                Return([Begin(@, "clear") EXCEPT
                          !.pc = "done",
                          !.quiet = \A q \in Callers : ~InFlight(q)],
                       Resolved(Undef))]
    /\ store' = IF Under(KeyToPath(KeyPath), KeyToPath(Key("k")))
                THEN NoFile ELSE store
    /\ UNCHANGED <<now, unlinks, getting, setting, getOrSetting,
                   getOrSettingStale, bypassed, batch>>

\* ------------------------------------------------------------------ reads
\* FileCacheBackend.get returns an entry: the file is there and its buffer
\* parses (otherwise it returns undefined on ENOENT, or throws)
Readable(e) == e.present /\ Parses(e.buf)

\* backend.get() returns or throws a parse error, which _get() logs, and
\* _get() evaluates the expiry; an expired entry is reported absent and its
\* unlink is issued and not awaited
ReadDone(p) ==
    /\ P[p].pc = "reading"
    /\ Prompt
    /\ LET gone == Readable(store) /\ Expired(store, now)
           val == IF Readable(store) /\ ~gone THEN store.v ELSE Undef
           rec == [P[p] EXCEPT
                     !.rd = Resolved(val), !.e1 = store,
                     !.isStale = val # Undef
                                 /\ SetCtxStale(P[p].stale, store, now)]
       IN  /\ Apply(p, AfterRead(p, rec, val,
                                 [Eff(rec) EXCEPT !.getting = {}]))
           /\ unlinks' = IF gone THEN unlinks + 1 ELSE unlinks
    /\ UNCHANGED <<now, store, bypassed, batch>>

\* a _get() without its catch: the error of backend.get() reaches the caller
ReadFailThrows(p) ==
    /\ P[p].pc = "reading"
    /\ Prompt
    /\ LET rec == [P[p] EXCEPT !.rd = Rejected, !.e1 = store,
                               !.failed = TRUE, !.pc = "done"]
       IN  Apply(p, [Eff(rec) EXCEPT !.rec = Return(rec, Rejected)])
    /\ UNCHANGED <<now, store, unlinks, bypassed, batch>>

\* backend.get() throws something else than ENOENT: _get() logs it
ReadFail(p) ==
    /\ P[p].pc = "reading"
    /\ Prompt
    /\ LET rec == [P[p] EXCEPT !.rd = Resolved(Undef), !.e1 = store,
                               !.failed = TRUE]
       IN  Apply(p, AfterRead(p, rec, Undef,
                              [Eff(rec) EXCEPT !.getting = {}]))
    /\ UNCHANGED <<now, store, unlinks, bypassed, batch>>

\* the fire-and-forget unlink of _get() executes
Unlink ==
    /\ unlinks > 0
    /\ Prompt
    /\ unlinks' = unlinks - 1
    /\ store' = NoFile
    /\ UNCHANGED <<now, getting, setting, getOrSetting, getOrSettingStale,
                   bypassed, batch, P>>

\* _get() returns an entry and options.fromJSON or options.process throws
\* in the then-callback of getStale(): the shared promise rejects, the await
\* of the reader throws and the statement after it is not reached
ProcessThrows(p) ==
    /\ P[p].pc = "reading"
    /\ Prompt
    /\ P[p].xf
    /\ Readable(store)
    /\ ~Expired(store, now)
    /\ LET rec == [P[p] EXCEPT !.rd = Rejected, !.e1 = store,
                               !.failed = TRUE, !.pc = "done",
                               !.gp = IF @.st = "none" /\ P[p].path = "gos"
                                      THEN Rejected ELSE @]
       IN  Apply(p, [Eff(rec) EXCEPT !.rec = Return(rec, Rejected)])
    /\ UNCHANGED <<now, store, unlinks, bypassed, batch>>

\* a call that found a read in `getting` wakes up on its rejection
JoinGettingErr(p) ==
    /\ P[p].pc = "joinG"
    /\ P[P[p].wait].rd.st = "err"
    /\ LET rec == [P[p] EXCEPT !.e1 = store, !.pc = "done",
                               !.gp = IF P[p].path = "gos"
                                      THEN Rejected ELSE @]
       IN  Apply(p, [Eff(rec) EXCEPT !.rec = Return(rec, Rejected)])
    /\ UNCHANGED <<now, store, unlinks, bypassed, batch>>

\* a call that shares a read in flight wakes up: ctx.isStale is the reader's
JoinGetting(p) ==
    /\ P[p].pc = "joinG"
    /\ P[P[p].wait].rd.st = "ok"
    /\ LET rec == [P[p] EXCEPT !.e1 = store]
       IN  Apply(p, AfterRead(p, rec, P[P[p].wait].rd.v, Eff(rec)))
    /\ UNCHANGED <<now, store, unlinks, bypassed, batch>>

\* _withDefault / _withDefaultOpts on the promise found in `setting`
JoinSetting(p) ==
    /\ P[p].pc = "joinS"
    /\ P[P[p].wait].vp.st \in {"ok", "err"}
    /\ LET q == P[p].wait
       IN  P' = [P EXCEPT ![p] =
                    Return([@ EXCEPT !.pc = "done"],
                           IF P[q].vp.st = "ok"
                           THEN Resolved(WithDefault(P[q].vp.v))
                           ELSE Rejected)]
    /\ UNCHANGED <<now, store, unlinks, getting, setting, getOrSetting,
                   getOrSettingStale, bypassed, batch>>

\* _withDefaultOpts on the promise found in `getOrSetting`
JoinGetOrSetting(p) ==
    /\ P[p].pc = "joinGOS"
    /\ P[P[p].wait].gp.st \in {"ok", "err"}
    /\ LET q == P[p].wait
       IN  P' = [P EXCEPT ![p] =
                    Return([@ EXCEPT !.pc = "done", !.e1 = store],
                           IF P[q].gp.st = "ok"
                           THEN Resolved(WithDefault(P[q].gp.v))
                           ELSE Rejected)]
    /\ UNCHANGED <<now, store, unlinks, getting, setting, getOrSetting,
                   getOrSettingStale, bypassed, batch>>

\* ----------------------------------------------------------------- writes
\* the promise or the producer resolves to a value: _setBoth issues the write
ResolveOk(p) ==
    /\ P[p].pc = "resolving"
    /\ P' = [P EXCEPT ![p] =
                [@ EXCEPT !.vp = Resolved(Val(p)), !.pc = "bwrite",
                          !.ent = File(Val(p), now, ParseTTL(P[p].ttl))]]
    /\ UNCHANGED <<now, store, unlinks, getting, setting, getOrSetting,
                   getOrSettingStale, bypassed, batch>>

\* it resolves to undefined: _setBoth writes nothing and set() returns true
ResolveUndef(p) ==
    /\ P[p].pc = "resolving"
    /\ LET rec == [P[p] EXCEPT !.vp = Resolved(Undef)]
       IN  Apply(p, SetReturn(rec, TRUE, Undef,
                              [Eff(rec) EXCEPT !.setting = {}]))
    /\ UNCHANGED <<now, store, unlinks, bypassed, batch>>

\* it rejects: the catch block of set() awaits _del
ResolveErr(p) ==
    /\ P[p].pc = "resolving"
    /\ P' = [P EXCEPT ![p] =
                [@ EXCEPT !.vp = Rejected, !.pc = "catchdel",
                          !.failed = TRUE]]
    /\ UNCHANGED <<now, store, unlinks, getting, setting, getOrSetting,
                   getOrSettingStale, bypassed, batch>>

\* a writeFile aimed at the target file itself
WriteInPlace(p, target) == Truncated(P[p].ent)

\* the target file while fs.writeFile fills the temporary file of p
WriteTarget(p, target) == target

\* backend.set, of set() or of touch: mkdir is done and writeFile has written
\* the first bytes of the temporary file
BWriteChunk(p) ==
    /\ P[p].pc \in {"bwrite", "twrite"}
    /\ Prompt
    /\ ~P[p].tmp.present
    /\ P' = [P EXCEPT ![p] = [@ EXCEPT !.tmp = Truncated(P[p].ent)]]
    /\ store' = WriteTarget(p, store)
    /\ UNCHANGED <<now, unlinks, getting, setting, getOrSetting,
                   getOrSettingStale, bypassed, batch>>

\* backend.set: mkdir and writeFile of the temporary file are done
BWrite(p) ==
    /\ P[p].pc = "bwrite"
    /\ Prompt
    /\ P' = [P EXCEPT ![p] = [@ EXCEPT !.pc = "brename", !.tmp = P[p].ent]]
    /\ UNCHANGED <<now, store, unlinks, getting, setting, getOrSetting,
                   getOrSettingStale, bypassed, batch>>

\* backend.set: rename publishes the entry; _set, _setBoth and set() return
BRename(p) ==
    /\ P[p].pc = "brename"
    /\ Prompt
    /\ store' = P[p].tmp
    /\ LET rec == [P[p] EXCEPT !.stored = TRUE]
       IN  Apply(p, SetReturn(rec, TRUE, rec.ent.v,
                              [Eff(rec) EXCEPT !.setting = {}]))
    /\ UNCHANGED <<now, unlinks, bypassed, batch>>

\* backend.set throws (mkdir, writeFile or rename fails): _set() logs it and
\* returns false, which _setBoth ignores
BackendSetFail(p) ==
    /\ P[p].pc \in {"bwrite", "brename"}
    /\ Prompt
    /\ LET rec == [P[p] EXCEPT !.failed = TRUE, !.clean = ~store.present]
       IN  Apply(p, SetReturn(rec, TRUE, rec.ent.v,
                              [Eff(rec) EXCEPT !.setting = {}]))
    /\ UNCHANGED <<now, store, unlinks, bypassed, batch>>

\* the unlink awaited by the catch block of set() executes; set() rethrows
CatchDel(p) ==
    /\ P[p].pc = "catchdel"
    /\ Prompt
    /\ store' = NoFile
    /\ LET rec == [P[p] EXCEPT !.clean = TRUE]
       IN  Apply(p, SetReturn(rec, FALSE, Undef,
                              [Eff(rec) EXCEPT !.setting = {}]))
    /\ UNCHANGED <<now, unlinks, bypassed, batch>>

\* the timer of _setBackground fires: set(key, value, options)
BgFire(p) ==
    /\ P[p].pc = "timer"
    /\ Prompt
    /\ Apply(p, SetBegin(p, P[p], Eff(P[p])))
    /\ UNCHANGED <<now, store, unlinks, bypassed, batch>>

\* -------------------------------------------------------------- markStale
\* markStale(key): backend.touch reads the entry
TouchRead(p) ==
    /\ P[p].pc = "idle"
    /\ Prompt
    /\ P' = [P EXCEPT ![p] =
                IF Readable(store)
                THEN [Begin(@, "markStale") EXCEPT
                         !.pc = "twrite", !.e1 = store,
                         !.ent = File(store.v, 0, store.t)]
                ELSE Return([Begin(@, "markStale") EXCEPT !.pc = "done"],
                            Resolved(Undef))]
    /\ UNCHANGED <<now, store, unlinks, getting, setting, getOrSetting,
                   getOrSettingStale, bypassed, batch>>

TouchWrite(p) ==
    /\ P[p].pc = "twrite"
    /\ Prompt
    /\ P' = [P EXCEPT ![p] = [@ EXCEPT !.pc = "trename", !.tmp = P[p].ent]]
    /\ UNCHANGED <<now, store, unlinks, getting, setting, getOrSetting,
                   getOrSettingStale, bypassed, batch>>

TouchRename(p) ==
    /\ P[p].pc = "trename"
    /\ Prompt
    /\ store' = P[p].tmp
    /\ P' = [P EXCEPT ![p] =
                Return([@ EXCEPT !.pc = "done", !.stored = TRUE],
                       Resolved(Undef))]
    /\ UNCHANGED <<now, unlinks, getting, setting, getOrSetting,
                   getOrSettingStale, bypassed, batch>>

\* ------------------------------------------------------------------ clock
Tick ==
    /\ now < MaxNow
    /\ now' = now + 1
    /\ UNCHANGED <<store, unlinks, getting, setting, getOrSetting,
                   getOrSettingStale, bypassed, batch, P>>

\* ---------------------------------------------------------- specifications
InitWith(stores) ==
    /\ now = StartNow
    /\ store \in stores
    /\ unlinks = 0
    /\ getting = {}
    /\ setting = {}
    /\ getOrSetting = {}
    /\ getOrSettingStale = FALSE
    /\ bypassed = FALSE
    /\ batch = 0
    /\ P = [p \in Callers |-> IdleProc]

\* the entries an earlier run of the program may have left on disk
OldFiles(ttls) == {File(OldVal, c, t) : c \in 1..StartNow, t \in ttls}

\* The option records of getOrSet
Opt(src, ttl, stale, rr, fr, fu) ==
    [src |-> src, ttl |-> ttl, stale |-> stale, rr |-> rr, fr |-> fr,
     fu |-> fu]

\* --- getOrSet(k, fn) without staleTTL on a key that has no entry ----------
DogpileMenu == {Opt("fn", 0, 0, TRUE, FALSE, FALSE)}

InitDogpile == InitWith({NoFile})

NextDogpile ==
    \E p \in Callers :
        \/ StartGetOrSet(p, DogpileMenu)
        \/ ReadDone(p)
        \/ JoinGetOrSetting(p)
        \/ ResolveOk(p)
        \/ ResolveErr(p)
        \/ BWrite(p)
        \/ BRename(p)
        \/ CatchDel(p)

SpecDogpile == InitDogpile /\ [][NextDogpile]_vars

\* the getOrSet calls of one group of calls that overlap in time
Group(b) == {p \in Callers : P[p].op = "getOrSet" /\ P[p].batch = b}

\* C1: the getOrSet calls (no staleTTL) that overlap in time on a key with no
\* entry, and none of whose producers fails, invoke the producer exactly
\* once between them and all resolve to the same value.
C1_DogpileOnce ==
    \A b \in 1..NCallers :
        LET G == Group(b)
        IN  (/\ G # {}
             /\ \A p \in G : /\ Returned(p)
                             /\ P[p].stale = 0
                             /\ ~P[p].e0.present
                             /\ ~P[p].failed)
            => /\ Cardinality({p \in G : P[p].calls > 0}) = 1
               /\ \A p, q \in G : /\ P[p].ret.st = "ok"
                                  /\ P[p].ret = P[q].ret

\* --- stale-while-revalidate next to plain reads ---------------------------
SwrMenu == {Opt("fn", LongTTL, ShortTTL, TRUE, fr, FALSE) : fr \in BOOLEAN}

InitSwr == InitWith({NoFile} \cup OldFiles({0, LongTTL}))

NextSwr ==
    \E p \in Callers :
        \/ StartGetOrSet(p, SwrMenu)
        \/ StartGet(p)
        \/ ReadDone(p)
        \/ JoinGetting(p)
        \/ JoinSetting(p)
        \/ ResolveOk(p)
        \/ BWrite(p)
        \/ BRename(p)
        \/ BgFire(p)

SpecSwr == InitSwr /\ [][NextSwr]_vars

\* a getOrSet call with staleTTL that ran the decision table and returned,
\* the entry of the key being e from its start to its return
SawEntry(p) ==
    /\ P[p].op = "getOrSet"
    /\ P[p].stale > 0
    /\ ~P[p].fu
    /\ ~P[p].byp0
    /\ Returned(p)
    /\ P[p].e0.present
    /\ P[p].e1 = P[p].e0

\* the entry that the call found is stale for it and not expired
StaleForCall(p) ==
    /\ ~Expired(P[p].e0, P[p].t0)
    /\ SetCtxStale(P[p].stale, P[p].e0, P[p].t0)

\* C2: a getOrSet with staleTTL (freshResult not true) on an entry that is
\* present, not expired and stale returns the stale value before its
\* producer has run, and a regeneration is under way when it returns: the
\* background job that this call or an earlier one scheduled, or a set().
C2_StaleWhileRevalidate ==
    \A p \in Callers :
        (SawEntry(p) /\ StaleForCall(p) /\ ~P[p].fr)
        => /\ P[p].ret = Resolved(P[p].e0.v)
           /\ P[p].callsAtRet = 0
           /\ P[p].regen

\* C8: a getOrSet with staleTTL and freshResult:true on an entry that is
\* present and stale computes in the foreground and never returns the stale
\* value, whatever reads of the key run next to it.
C8_FreshResult ==
    \A p \in Callers :
        (SawEntry(p) /\ StaleForCall(p) /\ P[p].fr)
        => /\ P[p].ret.st = "ok"
           /\ P[p].ret.v # P[p].e0.v

\* --- set next to get and getStale ----------------------------------------
InitSet == InitWith({NoFile} \cup OldFiles({0}))

NextSet ==
    \E p \in Callers :
        \/ StartSet(p, {"plain", "promise", "fn"}, {0})
        \/ StartGet(p)
        \/ StartGetStale(p)
        \/ ReadDone(p)
        \/ ReadFail(p)
        \/ JoinGetting(p)
        \/ JoinSetting(p)
        \/ ResolveOk(p)
        \/ ResolveErr(p)
        \/ BWrite(p)
        \/ BackendSetFail(p)
        \/ BRename(p)
        \/ CatchDel(p)

SpecSet == InitSet /\ [][NextSet]_vars

\* C3: from the start of a set() to its settling the `setting` map holds an
\* entry for the key, so that a get() issued meanwhile shares the value being
\* written; also when several set() calls on the key overlap (and none of
\* them fails).
C3_SetVisible ==
    (\A q \in Callers : ~P[q].failed)
    => \A p \in Callers :
          (P[p].op = "set" /\ ~Returned(p)) => setting # {}

\* C4: a set() during which the value's resolution or the backend write
\* failed rejects, and when it settles no entry of the key is stored and the
\* `setting` map holds none.
C4_FailedSetRejects ==
    \A p \in Callers :
        (P[p].op = "set" /\ Returned(p) /\ P[p].failed)
        => /\ P[p].ret = Rejected
           /\ P[p].clean

\* C5: get() and getStale() never reject, whatever the backend does and
\* whatever set() runs next to them.
C5_GetNeverThrows ==
    \A p \in Callers :
        (P[p].op \in {"get", "getStale"} /\ Returned(p)) => P[p].ret.st = "ok"

\* --- markStale, then reads -------------------------------------------------
MarkMenu == {Opt("fn", LongTTL, ShortTTL, TRUE, FALSE, FALSE)}

InitMark == InitWith(OldFiles({0, LongTTL}))

NextMark ==
    \/ \E p \in Callers :
        \/ TouchRead(p)
        \/ TouchWrite(p)
        \/ TouchRename(p)
        \/ StartGet(p)
        \/ StartGetOrSet(p, MarkMenu)
        \/ ReadDone(p)
        \/ JoinGetting(p)
        \/ JoinSetting(p)
        \/ ResolveOk(p)
        \/ BWrite(p)
        \/ BRename(p)
        \/ BgFire(p)
    \/ Unlink

SpecMark == InitMark /\ [][NextMark]_vars

\* the entry that a settled markStale() left, found by a later call at its
\* start and still there when the call, sharing nobody's read, read the key
MarkedFor(p) ==
    /\ Returned(p)
    /\ P[p].rd.st = "ok"
    /\ P[p].e1 = P[p].e0
    /\ \E m \in Callers :
          /\ P[m].op = "markStale"
          /\ P[m].stored
          /\ ~Expired(P[m].e1, P[m].t0)
          /\ P[p].e0 = P[m].ent

\* C6: after markStale() on a stored, unexpired entry, whatever its ttl, a
\* plain get() returns the entry's value as long as no regeneration has
\* started, and a getOrSet with staleTTL returns it as a stale value and
\* triggers the regeneration.
C6_MarkStaleKeepsValue ==
    \A p \in Callers :
        /\ (/\ P[p].op = "get"
            /\ MarkedFor(p)
            /\ \A q \in Callers : P[q].op # "getOrSet")
           => P[p].ret = Resolved(P[p].e0.v)
        /\ (/\ P[p].op = "getOrSet"
            /\ MarkedFor(p)
            /\ \A q \in Callers : P[q].op = "getOrSet" => q = p)
           => /\ P[p].ret = Resolved(P[p].e0.v)
              /\ P[p].regen

\* ---------------------------------------------------------------- forceUpdate
\* getOrSet with a producer function, with and without staleTTL, with and
\* without forceUpdate, on an absent, a fresh or a stale entry
ForceMenu ==
    {Opt("fn", 0, 0, TRUE, FALSE, fu) : fu \in BOOLEAN}
        \cup {Opt("fn", LongTTL, ShortTTL, TRUE, FALSE, TRUE)}

InitForce == InitWith({NoFile} \cup OldFiles({0}))

NextForce ==
    \E p \in Callers :
        \/ StartGetOrSet(p, ForceMenu)
        \/ ReadDone(p)
        \/ JoinSetting(p)
        \/ JoinGetOrSetting(p)
        \/ ResolveOk(p)
        \/ BWrite(p)
        \/ BRename(p)

SpecForce == InitForce /\ [][NextForce]_vars

\* C9: a getOrSet with forceUpdate:true that starts with the cache not
\* bypassed and no set of the key in flight does not return before it has
\* invoked its producer once and stored an entry holding the producer's
\* value, whatever entry storage held when it started.
C9_ForceUpdateInvokes ==
    \A p \in Callers :
        (P[p].op = "getOrSet" /\ P[p].fu /\ ~P[p].byp0 /\ ~P[p].set0
            /\ Returned(p))
        => (P[p].calls = 1 /\ P[p].stored /\ P[p].ent.v = Val(p))

\* --------------------------------------------------------------------- expiry
InitExpiry == InitWith({NoFile})

NextExpiry ==
    \/ \E p \in Callers :
        \/ StartSet(p, {"plain"}, {0, ShortTTL})
        \/ StartGet(p)
        \/ Has(p)
        \/ ReadDone(p)
        \/ JoinSetting(p)
        \/ BWrite(p)
        \/ BRename(p)
    \/ Unlink
    \/ Tick

SpecExpiry == InitExpiry /\ [][NextExpiry]_vars

\* a get or has that started with no set in flight on the entry a set()
\* stored, and, for a get, whose own read found that same entry
OnEntryOfSet(q) ==
    /\ P[q].op \in {"get", "has"}
    /\ Returned(q)
    /\ ~P[q].set0
    /\ \E s \in Callers : P[s].op = "set" /\ P[s].stored /\ P[q].e0 = P[s].ent
    /\ P[q].op = "get" => (P[q].rd.st = "ok" /\ P[q].e1 = P[q].e0)

\* C10: once more than the ttl T > 0 of the entry a set() stored has elapsed
\* and nothing else has written the key, get returns the caller's default and
\* has returns false; while a get on an entry stored with ttl 0 returns the
\* stored value however much time has elapsed.
C10_Expiry ==
    \A q \in Callers :
        OnEntryOfSet(q) =>
            /\ (P[q].op = "get" /\ Expired(P[q].e0, P[q].t0))
                    => P[q].ret = Resolved(Default)
            /\ (P[q].op = "has" /\ Expired(P[q].e0, P[q].t0))
                    => P[q].ret = Resolved(False)
            /\ (P[q].op = "get" /\ P[q].e0.t = 0)
                    => P[q].ret = Resolved(P[q].e0.v)


\* --- getOrSet with staleTTL among the other operations on the key ---------
StaleMenu ==
    {Opt("fn", LongTTL, ShortTTL, rr, fr, fu) :
        rr \in BOOLEAN, fr \in BOOLEAN, fu \in BOOLEAN}

Init == InitWith({NoFile} \cup OldFiles({0, LongTTL}))

Next ==
    \/ \E p \in 1..NBusy :
        \/ StartGetOrSet(p, StaleMenu)
        \/ StartGet(p)
        \/ StartSet(p, {"promise"}, {0})
        \/ DelOp(p)
        \/ TouchRead(p)
        \/ TouchWrite(p)
        \/ TouchRename(p)
        \/ ReadDone(p)
        \/ ReadFail(p)
        \/ JoinGetting(p)
        \/ JoinSetting(p)
        \/ ResolveOk(p)
        \/ ResolveUndef(p)
        \/ ResolveErr(p)
        \/ BWrite(p)
        \/ BackendSetFail(p)
        \/ BRename(p)
        \/ CatchDel(p)
        \/ BgFire(p)
    \/ Unlink

Spec == Init /\ [][Next]_vars

\* ------------------------------------------------------------- requireResult
\* getOrSet with staleTTL and requireResult:false, for both values of
\* freshResult, next to plain reads; producers and writes may fail
RequireMenu == {Opt("fn", LongTTL, ShortTTL, FALSE, fr, FALSE) : fr \in BOOLEAN}

InitRequire == InitWith({NoFile} \cup OldFiles({LongTTL}))

NextRequire ==
    \E p \in 1..NBusy :
        \/ StartGetOrSet(p, RequireMenu)
        \/ StartGet(p)
        \/ ReadDone(p)
        \/ JoinGetting(p)
        \/ JoinSetting(p)
        \/ ResolveOk(p)
        \/ ResolveErr(p)
        \/ BWrite(p)
        \/ BRename(p)
        \/ CatchDel(p)
        \/ BgFire(p)

SpecRequire == InitRequire /\ [][NextRequire]_vars

\* a getOrSet with staleTTL and requireResult:false, not bypassed and not
\* forced, whose read of the key has returned undefined
AbsentNoRequire(p) ==
    /\ P[p].op = "getOrSet"
    /\ P[p].stale > 0
    /\ ~P[p].fu
    /\ ~P[p].byp0
    /\ ~P[p].rr
    /\ P[p].pc \notin {"idle", "reading", "joinG"}
    /\ P[p].existing = Undef

\* what a call that took the background branch shows
DefaultAndBackground(p) ==
    /\ P[p].ret = Resolved(Default)
    /\ P[p].callsAtRet = 0
    /\ P[p].regen
    /\ (P[p].path = "bg" /\ P[p].pc # "timer") => P[p].calls = 1

\* a get that started on the entry a background job of p stored, with no set
\* in flight, and whose own read of that entry succeeded
ReadsBackgroundResult(g, p) ==
    /\ P[p].op = "getOrSet"
    /\ P[p].path = "bg"
    /\ P[p].stored
    /\ P[g].op = "get"
    /\ Returned(g)
    /\ ~P[g].set0
    /\ P[g].rd.st = "ok"
    /\ ~P[g].failed
    /\ P[g].e0 = P[p].ent
    /\ P[g].e1 = P[p].ent

InitKinds(stores, kinds) ==
    /\ now = StartNow
    /\ store \in stores
    /\ unlinks = 0
    /\ getting = {}
    /\ setting = {}
    /\ getOrSetting = {}
    /\ getOrSettingStale = FALSE
    /\ bypassed = FALSE
    /\ batch = 0
    /\ P \in [Callers -> {[IdleProc EXCEPT !.kind = k] : k \in kinds}]

InitRound == InitKinds({NoFile}, {"short", "flat", "dense"})

NextRound ==
    \/ \E p \in 1..NBusy :
        \/ StartSet(p, {"plain", "promise"}, {0, LongTTL})
        \/ StartGet(p)
        \/ ReadDone(p)
        \/ JoinSetting(p)
        \/ ResolveOk(p)
        \/ BWrite(p)
        \/ BRename(p)
    \/ Tick

SpecRound == InitRound /\ [][NextRound]_vars

\* a get that started with no set in flight on the entry that the settled
\* set() of s stored, and whose own read found that same entry
ReadsEntryOfSet(g, s) ==
    /\ P[s].op = "set"
    /\ P[s].stored
    /\ P[s].ret = Resolved(True)
    /\ P[g].op = "get"
    /\ Returned(g)
    /\ ~P[g].set0
    /\ P[g].rd.st = "ok"
    /\ P[g].e0 = P[s].ent
    /\ P[g].e1 = P[s].ent

\* C11: after set(k, v, ttl) with a defined v has settled successfully and
\* with no other write or delete on k, a get(k) made while the ttl has not
\* elapsed returns v.
C11_RoundTrip ==
    \A g, s \in Callers :
        (ReadsEntryOfSet(g, s) /\ ~Expired(P[g].e0, now))
        => P[g].ret = Resolved(Val(s))

\* ---------------------------------------------------------------- atomic write
InitAtomic == InitWith({NoFile} \cup OldFiles({0, LongTTL}))

NextAtomic ==
    \/ \E p \in 1..NBusy :
        \/ StartSet(p, {"plain"}, {0, LongTTL})
        \/ TouchRead(p)
        \/ StartGet(p)
        \/ ReadDone(p)
        \/ JoinSetting(p)
        \/ BWriteChunk(p)
        \/ BWrite(p)
        \/ BRename(p)
        \/ BackendSetFail(p)
        \/ TouchWrite(p)
        \/ TouchRename(p)
    \/ Unlink

SpecAtomic == InitAtomic /\ [][NextAtomic]_vars

\* e is the file of a whole entry
Complete(e) == e.present /\ e = File(e.v, e.c, e.t)

\* the backend set of p throws in this step
SetFailsNow(p) ==
    /\ P[p].pc \in {"bwrite", "brename"}
    /\ ~P[p].failed
    /\ P'[p].failed

\* C12: at every instant the target file is absent or holds a whole entry;
\* a step changes it only to absent or to the whole new entry of a backend
\* set that is at its rename; and a step in which a backend set fails, before
\* or after its temporary file is written, leaves the target file as it was.
C12_AtomicWrite ==
    /\ [](store.present => Complete(store))
    /\ [][store' # store =>
            \/ store' = NoFile
            \/ \E p \in Callers : /\ P[p].pc \in {"brename", "trename"}
                                  /\ Complete(P[p].ent)
                                  /\ store' = P[p].ent]_vars
    /\ [][\A p \in Callers : SetFailsNow(p) => store' = store]_vars

\* a backend set has failed after its temporary file was written whole,
\* while another one has only part of its temporary file written, and the
\* target file holds the earlier entry
C12_Witness ==
    \E p, q \in Callers :
        /\ P[p].op = "set"
        /\ P[p].failed
        /\ P[p].tmp = P[p].ent
        /\ P[q].pc = "bwrite"
        /\ P[q].tmp = Truncated(P[q].ent)
        /\ store.present
        /\ store.v = OldVal

\* ------------------------------------------------------------------------ clear
InitClear == InitWith({NoFile})

NextClear ==
    \E p \in Callers :
        \/ StartSet(p, {"plain"}, {0})
        \/ ClearOp(p)
        \/ StartGet(p)
        \/ Has(p)
        \/ ReadDone(p)
        \/ JoinSetting(p)
        \/ BWrite(p)
        \/ BRename(p)

SpecClear == InitClear /\ [][NextClear]_vars

\* a get or has that started after a clear() had settled, where that clear()
\* ran with no call in flight and no set() has started since it settled
AfterClear(g) ==
    /\ P[g].op \in {"get", "has"}
    /\ Returned(g)
    /\ P[g].clr0
    /\ \A c \in Callers : P[c].op = "clear" => P[c].quiet
    /\ \A s \in Callers : P[s].op = "set" => ~P[s].clr0

\* C13: after clear() has settled, with no write in flight or started
\* since, a key stored through the instance before is absent: get(k) returns
\* the default and has(k) returns false.
C13_ClearRemovesAll ==
    \A g \in Callers :
        AfterClear(g) =>
            /\ P[g].op = "get" => P[g].ret = Resolved(Default)
            /\ P[g].op = "has" => P[g].ret = Resolved(False)

\* ----------------------------------------------------------------------- bypass
\* getOrSet with a producer function, without and with staleTTL
BypassMenu ==
    {Opt("fn", 0, 0, TRUE, FALSE, FALSE),
     Opt("fn", LongTTL, ShortTTL, TRUE, FALSE, FALSE)}

InitBypass == InitWith({NoFile} \cup OldFiles({0}))

NextBypass ==
    \/ \E flag \in BOOLEAN : Bypass(flag)
    \/ \E p \in Callers :
        \/ StartGetOrSet(p, BypassMenu)
        \/ DirectOk(p)
        \/ DirectErr(p)
        \/ ReadDone(p)
        \/ JoinGetting(p)
        \/ JoinSetting(p)
        \/ JoinGetOrSetting(p)
        \/ ResolveOk(p)
        \/ BWrite(p)
        \/ BRename(p)
        \/ BgFire(p)

SpecBypass == InitBypass /\ [][NextBypass]_vars

\* C14: a getOrSet, with or without staleTTL, that is called while the
\* instance is bypassed invokes its producer once and returns the
\* producer's result (or its error), and neither reads nor writes storage.
C14_BypassTouchesNothing ==
    \A p \in Callers :
        (P[p].op = "getOrSet" /\ P[p].byp0 /\ Returned(p))
        => /\ P[p].calls = 1
           /\ P[p].ret = Resolved(Val(p)) \/ (P[p].failed /\ P[p].ret = Rejected)
           /\ P[p].rd = NoPromise
           /\ ~P[p].stored

\* ------------------------------------------------- background refresh failure
\* stale-while-revalidate next to plain reads, with producers that may fail
BgFailMenu == {Opt("fn", LongTTL, ShortTTL, TRUE, FALSE, FALSE)}

InitBgFail == InitWith(OldFiles({0, LongTTL}))

NextBgFail ==
    \E p \in Callers :
        \/ StartGetOrSet(p, BgFailMenu)
        \/ StartGet(p)
        \/ ReadDone(p)
        \/ JoinGetting(p)
        \/ JoinSetting(p)
        \/ BgFire(p)
        \/ ResolveOk(p)
        \/ ResolveErr(p)
        \/ CatchDel(p)
        \/ BWrite(p)
        \/ BRename(p)

SpecBgFail == InitBgFail /\ [][NextBgFail]_vars

\* the background job that the call of p scheduled on finding a stale entry
\* has settled after its producer failed
BgJobFailed(p) ==
    /\ P[p].op = "getOrSet"
    /\ P[p].path = "bg"
    /\ P[p].pc = "done"
    /\ P[p].failed
    /\ P[p].e1.present

\* C15: when the producer of a background regeneration has failed, no get
\* and no getOrSet whose own producer did not fail has been rejected, and,
\* as long as no call has written the key, the file holds the stale entry
\* that the call which scheduled the job found and returned.
C15_BgFailureKeepsStale ==
    (\E p \in Callers : BgJobFailed(p))
    => /\ \A q \in Callers :
            (Returned(q) /\ ~P[q].failed) => P[q].ret.st = "ok"
       /\ \A p \in Callers :
            (BgJobFailed(p) /\ \A q \in Callers : ~P[q].stored)
            => (store = P[p].e1 /\ P[p].ret = Resolved(store.v))

\* -------------------------------------------------------------------- cache hit
\* getOrSet without and with staleTTL, next to set(); producers may fail
HitMenu ==
    {Opt("fn", 0, 0, TRUE, FALSE, FALSE),
     Opt("fn", LongTTL, ShortTTL, TRUE, FALSE, FALSE)}

InitHit == InitWith({NoFile} \cup OldFiles({0, LongTTL}))

NextHit ==
    \E p \in Callers :
        \/ StartGetOrSet(p, HitMenu)
        \/ StartSet(p, {"plain"}, {0})
        \/ ReadDone(p)
        \/ JoinGetting(p)
        \/ JoinSetting(p)
        \/ JoinGetOrSetting(p)
        \/ BgFire(p)
        \/ ResolveOk(p)
        \/ ResolveErr(p)
        \/ CatchDel(p)
        \/ BWrite(p)
        \/ BRename(p)

SpecHit == InitHit /\ [][NextHit]_vars

\* a getOrSet, not forced and not bypassed, that found at its start a
\* readable entry, not expired and not stale for it, which was still the
\* stored entry when the call read the key or woke up
OnFreshEntry(p) ==
    /\ P[p].op = "getOrSet"
    /\ ~P[p].fu
    /\ ~P[p].byp0
    /\ Returned(p)
    /\ Readable(P[p].e0)
    /\ ~Expired(P[p].e0, now)
    /\ ~SetCtxStale(P[p].stale, P[p].e0, now)
    /\ P[p].e1 = P[p].e0

\* C16: a getOrSet on a present entry that is not expired (and, with
\* staleTTL, not stale) returns the cached value, does not invoke its
\* producer and does not write storage.
C16_CacheHit ==
    \A p \in Callers :
        OnFreshEntry(p)
        => /\ P[p].ret = Resolved(P[p].e0.v)
           /\ P[p].calls = 0
           /\ ~P[p].stored

\* ------------------------------------------------------- failing backend read
\* getStale and getOrSet, without and with staleTTL, on a key whose file
\* cannot be read; producers and writes succeed
ReadErrMenu ==
    {Opt("fn", 0, 0, TRUE, FALSE, FALSE),
     Opt("fn", LongTTL, LongTTL, TRUE, FALSE, FALSE)}

InitReadErr == InitWith({NoFile} \cup OldFiles({0, LongTTL}))

NextReadErr ==
    \E p \in 1..NBusy :
        \/ StartGetStale(p)
        \/ StartGetOrSet(p, ReadErrMenu)
        \/ ReadDone(p)
        \/ ReadFail(p)
        \/ JoinGetting(p)
        \/ JoinSetting(p)
        \/ JoinGetOrSetting(p)
        \/ ResolveOk(p)
        \/ BWrite(p)
        \/ BRename(p)

SpecReadErr == InitReadErr /\ [][NextReadErr]_vars

\* the backend read that the call of p issued has failed and the call has
\* returned
ReadFailed(p) == P[p].failed /\ Returned(p)

\* C17: a call whose backend read failed with an error other than not-found
\* goes on as on a miss: getStale resolves to the default, and getOrSet
\* resolves to a computed value, which is its own producer's, invoked once
\* and stored, unless it found a set of the key in flight and took its value.
C17_ReadErrorIsMiss ==
    \A p \in Callers :
        ReadFailed(p)
        => /\ P[p].op = "getStale" => P[p].ret = Resolved(Default)
           /\ P[p].op = "getOrSet"
              => IF P[p].wait = 0
                 THEN /\ P[p].ret = Resolved(Val(p))
                      /\ P[p].calls = 1
                      /\ P[p].stored
                 ELSE /\ P[p].ret = Resolved(Val(P[p].wait))
                      /\ P[p].calls = 0

\* both cases on a file that is present: a getStale and a getOrSet whose
\* reads failed have returned
C17_Witness ==
    /\ \E p \in Callers : ReadFailed(p) /\ P[p].op = "getStale"
                            /\ P[p].e1.present
    /\ \E p \in Callers : ReadFailed(p) /\ P[p].op = "getOrSet"
                            /\ P[p].e1.present /\ P[p].stored

\* ------------------------------------------- the computing-foreground registry
\* C18: getOrSetting holds an entry only while the getOrSet without staleTTL
\* that registered it is in flight: once that call has settled, by success
\* or by failure of its producer, the entry is gone.
C18_RegistryReleased ==
    \A p \in getOrSetting :
        /\ P[p].op = "getOrSet"
        /\ P[p].stale = 0
        /\ InFlight(p)

\* ------------------------------------------------------------ single-flight read
\* getStale, without and with a transform, on a key with or without an entry
InitSingle == InitWith({NoFile} \cup OldFiles({0, LongTTL}))

NextSingle ==
    \E p \in Callers :
        \/ StartGetStale(p)
        \/ StartGetStaleProcess(p)
        \/ ReadDone(p)
        \/ ReadFail(p)
        \/ ProcessThrows(p)
        \/ JoinGetting(p)
        \/ JoinGettingErr(p)

SpecSingle == InitSingle /\ [][NextSingle]_vars

\* C19: at most one backend read of the key is in flight at any time, and
\* `getting` holds an entry only while the read of the call that registered
\* it is in flight: when that read has settled, by success or by failure
\* (a transform that throws included), the entry is gone.
C19_SingleFlightRead ==
    /\ Cardinality({p \in Callers : P[p].pc = "reading"}) <= 1
    /\ \A p \in getting : P[p].pc = "reading"

\* ------------------------------------------------------ background regeneration
\* getOrSet with staleTTL, requireResult true and false, on a key with a
\* fresh, a stale or no entry; producers and writes may fail
RegenMenu == {Opt("fn", 0, ShortTTL, rr, FALSE, FALSE) : rr \in BOOLEAN}

InitRegen == InitWith({NoFile} \cup OldFiles({0}))

NextRegen ==
    \E p \in 1..NBusy :
        \/ StartGetOrSet(p, RegenMenu)
        \/ ReadDone(p)
        \/ JoinGetting(p)
        \/ JoinSetting(p)
        \/ BgFire(p)
        \/ ResolveOk(p)
        \/ ResolveErr(p)
        \/ BWrite(p)
        \/ BRename(p)
        \/ BackendSetFail(p)
        \/ CatchDel(p)

SpecRegen == InitRegen /\ [][NextRegen]_vars

\* the background jobs that are scheduled or running
BgJobs == {p \in Callers : P[p].path = "bg" /\ P[p].pc # "done"}

\* C20: at most one background regeneration job is scheduled or running,
\* getOrSettingStale is set exactly while there is one, by whichever way the
\* job ends, no background job invokes the producer more than once, and a
\* getOrSet that finds the entry stale and does not become the job does not
\* invoke the producer.
C20_OneBackgroundJob ==
    /\ Cardinality(BgJobs) <= 1
    /\ getOrSettingStale <=> BgJobs # {}
    /\ \A p \in Callers :
         (P[p].op = "getOrSet" /\ P[p].stale > 0)
         => /\ P[p].path = "bg" => P[p].calls <= 1
            /\ (P[p].isStale /\ P[p].path # "bg" /\ Returned(p))
               => P[p].calls = 0

\* a call found the entry stale while a job was in flight and returned
\* without becoming a job, and the job has ended since: the flag is down
C20_Witness ==
    /\ ~getOrSettingStale
    /\ \E p, q \in Callers :
         /\ P[p].path = "bg" /\ P[p].pc = "done" /\ P[p].calls = 1
         /\ P[q].op = "getOrSet" /\ P[q].isStale /\ P[q].path = "hit"
         /\ P[q].regen /\ P[q].calls = 0

\* ------------------------------------------- getOrSet with staleTTL, absent key
\* getOrSet(k, fn, {staleTTL}) on a key that has no entry; producers and
\* writes may fail; time passes
StaleDogMenu == {Opt("fn", 0, ShortTTL, TRUE, FALSE, FALSE)}

InitStaleDog == InitWith({NoFile})

NextStaleDog ==
    \/ \E p \in 1..NBusy :
        \/ StartGetOrSet(p, StaleDogMenu)
        \/ ReadDone(p)
        \/ JoinGetting(p)
        \/ JoinSetting(p)
        \/ ResolveOk(p)
        \/ ResolveErr(p)
        \/ CatchDel(p)
        \/ BackendSetFail(p)
        \/ BgFire(p)
        \/ BWrite(p)
        \/ BRename(p)
    \/ Tick

SpecStaleDog == InitStaleDog /\ [][NextStaleDog]_vars

\* a getOrSet with staleTTL that started on an absent key, has returned, and
\* did not find an entry that had gone stale in the meantime
OnAbsentKey(p) ==
    /\ P[p].op = "getOrSet"
    /\ P[p].stale > 0
    /\ Returned(p)
    /\ ~P[p].e0.present
    /\ ~P[p].isStale

InitLazy == InitWith({NoFile} \cup OldFiles({ShortTTL}))

NextLazy ==
    \/ \E p \in Callers :
        \/ StartGet(p)
        \/ StartSet(p, {"plain"}, {0})
        \/ ReadDone(p)
        \/ JoinSetting(p)
        \/ BWrite(p)
        \/ BRename(p)
    \/ Unlink

SpecLazy == InitLazy /\ [][NextLazy]_vars

\* s is the only set of the key so far, and it has settled successfully
OnlySetSettled(s) ==
    /\ P[s].op = "set"
    /\ Returned(s)
    /\ P[s].ret = Resolved(True)
    /\ \A q \in Callers \ {s} : P[q].op # "set"

\* C22: once the only set(k, v) of the key has settled successfully, its
\* entry is stored, whatever reads of an expired entry ran next to it, and a
\* get that starts and reads from then on returns v.
C22_LazyDeleteSparesNewEntry ==
    \A s \in Callers :
        OnlySetSettled(s)
        => /\ store = P[s].ent
           /\ \A g \in Callers :
                (P[g].op = "get" /\ Returned(g) /\ P[g].e0 = P[s].ent)
                => P[g].ret = Resolved(Val(s))

\* ------------------------------------------------------- markStale next to set
\* markStale(k) and set(k, v) with no ttl on a key that has an entry
InitTouch == InitWith(OldFiles({0, LongTTL}))

NextTouch ==
    \E p \in Callers :
        \/ TouchRead(p)
        \/ TouchWrite(p)
        \/ TouchRename(p)
        \/ StartSet(p, {"plain"}, {0})
        \/ BWrite(p)
        \/ BRename(p)

SpecTouch == InitTouch /\ [][NextTouch]_vars

\* s and m are the only set and the only markStale of the key so far, and
\* both have settled
SetAndMarkSettled(s, m) ==
    /\ P[s].op = "set" /\ P[s].ret = Resolved(True)
    /\ P[m].op = "markStale" /\ Returned(m)
    /\ \A q \in Callers \ {s, m} : P[q].op = "idle"

\* C23: once a set(k, v2) and a markStale(k) that ran next to each other have
\* both settled, the value stored under k is v2.
C23_MarkStaleKeepsNewValue ==
    \A s, m \in Callers :
        SetAndMarkSettled(s, m) => (store.present /\ store.v = Val(s))

\* ------------------------------------------------ a set next to a failing set
\* s has settled successfully with its entry written, q is a set of the key
\* that failed and that was in flight when s started or started while s was
\* in flight, and no other call has written or deleted the key
NextToFailedSet(s, q) ==
    /\ s # q
    /\ P[s].op = "set" /\ P[s].ret = Resolved(True)
    /\ P[s].stored /\ ~P[s].failed
    /\ P[q].op = "set" /\ P[q].failed
    /\ P[s].set0 \/ P[q].set0
    /\ \A r \in Callers \ {s, q} : P[r].op \in {"idle", "get", "getStale"}

\* C24: the entry written by a set that settled successfully is still stored
\* after another set of the key, in flight next to it, has failed.
C24_FailedSetSparesEntry ==
    \A s, q \in Callers :
        NextToFailedSet(s, q) => store = P[s].ent
====
